---- MODULE Spec2Model ----
(***************************************************************************)
(* Model of the STL robustness engine of stgem:                            *)
(*   src/stgem/objective/Robustness.py  (Traces and the formula classes)   *)
(*                                                                         *)
(* Numbers.  numpy works on floats; the model works on integers.  A real   *)
(* number v is represented by the integer v * Unit (fixed point), so that  *)
(* the exponentials of the smoothed And can be computed.  Timestamps and   *)
(* time bounds are plain integers.  float("inf") and nan are sentinels.    *)
(*                                                                         *)
(* Python objects.  A constructed formula object is a record ("node")      *)
(* whose field attrs is the set of attributes its __init__ assigned:       *)
(* reading an attribute outside attrs is Python's AttributeError.          *)
(***************************************************************************)
EXTENDS Integers, Sequences, FiniteSets, TLC

VARIABLES trace,    \* the Traces object, or NoTrace
          req,      \* the constructor expression last asked for (a term)
          formula,  \* the object it produced, an Error node, or NoFormula
          last,     \* the last call and what it returned or raised
          adds      \* number of Traces.Add calls so far

vars == <<trace, req, formula, last, adds>>

(***************************************************************************)
(* Bounds of the model.                                                    *)
(***************************************************************************)
MaxLen == 3        \* longest timeline handed to Traces(...) with one signal
MaxPair == 1       \* longest timeline handed to Traces(...) with two signals
MaxAdds == 1       \* Add calls per trace

(***************************************************************************)
(* Numbers.                                                                *)
(***************************************************************************)
Unit == 10 * 10 * 10      \* fixed-point resolution: the real 1.0
PosInf == 1000000000      \* float("inf")
NegInf == 0 - PosInf
NaN == PosInf + 1
Uninit == PosInf + 2      \* an element of np.empty(...) never assigned

IsInf(a) == a = PosInf \/ a = NegInf
IsNaN(a) == a = NaN
Finite(a) == ~IsInf(a) /\ ~IsNaN(a) /\ a # Uninit

\* IEEE arithmetic on the sentinels, as numpy applies it elementwise.  An
\* unassigned element stays arbitrary through every operation.
FNeg(a) == IF a = Uninit THEN Uninit ELSE IF IsNaN(a) THEN NaN ELSE 0 - a
FAbs(a) == IF a = Uninit THEN Uninit ELSE IF IsNaN(a) THEN NaN
           ELSE IF a < 0 THEN 0 - a ELSE a
FAdd(a, b) ==
    IF a = Uninit \/ b = Uninit THEN Uninit
    ELSE IF IsNaN(a) \/ IsNaN(b) THEN NaN
    ELSE IF IsInf(a) /\ IsInf(b) THEN (IF a = b THEN a ELSE NaN)
    ELSE IF IsInf(a) THEN a
    ELSE IF IsInf(b) THEN b
    ELSE a + b
FSub(a, b) == FAdd(a, FNeg(b))
\* np.min: nan propagates.
FMin2(a, b) ==
    IF a = Uninit \/ b = Uninit THEN Uninit
    ELSE IF IsNaN(a) \/ IsNaN(b) THEN NaN
    ELSE IF a <= b THEN a ELSE b

RECURSIVE FMinSeq(_)
FMinSeq(s) == IF Len(s) = 1 THEN s[1] ELSE FMin2(s[1], FMinSeq(Tail(s)))

(***************************************************************************)
(* Outcomes of a call: a value or a raised exception.                      *)
(***************************************************************************)
Ok(op, arg, v, n) == [op |-> op, arg |-> arg, err |-> "none", vec |-> v, num |-> n]
Raise(op, arg, e) == [op |-> op, arg |-> arg, err |-> e, vec |-> <<>>, num |-> 0]

\* What a method returns: a vector, or the exception it raised.
Res(v) == [err |-> "none", vec |-> v]
Exc(e) == [err |-> e, vec |-> <<>>]

(***************************************************************************)
(* Traces.                                                                 *)
(***************************************************************************)
Names == {"x", "y"}
Values == {0 - Unit, 2 * Unit}

NoTrace == [exists |-> FALSE, timestamps |-> <<>>, signals |-> <<>>]

\* A constructor that compares only the signal "x" with the timestamps:
\* the variant C1 has to tell apart from Traces.__init__.
TracesInitFirstOnly(timestamps, signals) ==
    IF "x" \in DOMAIN signals /\ Len(signals["x"]) # Len(timestamps)
    THEN [obj |-> NoTrace, err |-> "ValueError"]
    ELSE [obj |-> [exists |-> TRUE, timestamps |-> timestamps, signals |-> signals],
          err |-> "none"]

\* Traces.__init__: keeps both arguments, then checks every signal's length.
TracesInit(timestamps, signals) ==
    IF \E n \in DOMAIN signals : Len(signals[n]) # Len(timestamps)
    THEN [obj |-> NoTrace, err |-> "ValueError"]
    ELSE [obj |-> [exists |-> TRUE, timestamps |-> timestamps, signals |-> signals],
          err |-> "none"]

\* Traces.search_time_index: for i in range(start, len(timestamps)).  A
\* negative i indexes from the end of the list, as Python does.
PyIndex(s, i) == IF i >= 0 THEN s[i + 1] ELSE s[Len(s) + i + 1]

RECURSIVE SearchFrom(_, _, _)
SearchFrom(timestamps, t, i) ==
    IF i >= Len(timestamps) THEN 0 - 1
    ELSE IF PyIndex(timestamps, i) = t THEN i
    ELSE SearchFrom(timestamps, t, i + 1)

search_time_index(tr, t, start) == SearchFrom(tr.timestamps, t, start)

\* Traces.Add: signals.update({name: signal}), no length check.
TracesAdd(tr, name, signal) ==
    [tr EXCEPT !.signals =
        [n \in (DOMAIN tr.signals) \cup {name} |->
            IF n = name THEN signal ELSE tr.signals[n]]]

\* Traces.Get: np.array(self.signals[name]).
TracesGet(tr, name) ==
    IF name \in DOMAIN tr.signals THEN Res(tr.signals[name]) ELSE Exc("KeyError")

(***************************************************************************)
(* Formula objects.  None is the empty tuple; a range is <<min, max>>; nu   *)
(* is None or <<number>>.                                                   *)
(***************************************************************************)
None == <<>>

Obj(kind, kids, attrs) ==
    [kind |-> kind, kids |-> kids, attrs |-> attrs, name |-> "", val |-> 0,
     lb |-> 0, ub |-> 0, nu |-> None, range |-> None, var_range |-> None,
     horizon |-> 0, variables |-> {}]

\* An exception raised by a constructor, in place of the object.
Error(e) == [Obj("Error", <<>>, {}) EXCEPT !.name = e]
IsError(o) == o.kind = "Error"
NoFormula == Obj("NoFormula", <<>>, {})

\* A Python int or float handed to a constructor: it has none of the
\* attributes the constructors read.
Number(v) == [Obj("Number", <<>>, {}) EXCEPT !.val = v]

Has(o, a) == a \in o.attrs
Max2(a, b) == IF a >= b THEN a ELSE b
Min2(a, b) == IF a <= b THEN a ELSE b
AbsI(a) == IF a < 0 THEN 0 - a ELSE a
\* if (A > B): swap
Ordered(A, B) == IF A > B THEN <<B, A>> ELSE <<A, B>>

\* Traces.from_mixed_signals(*args, sampling_period): args is name1,
\* timestamps1, signal1, name2, ...; sampling_period is None or <<number>>.
\* Line 28 raises when no period is given.  Line 32 takes max() of the
\* lengths of args[1], args[4], ... and raises ValueError when there is
\* none.  Line 35 reads self.sampling_period, and in a classmethod whose
\* first parameter is named C no name self is bound: NameError, so that the
\* fill loop and C(timestamps, signals) of lines 37-56 are never run.
from_mixed_signals(args, sampling_period) ==
    IF sampling_period = None
    THEN [obj |-> NoTrace, err |-> "NotImplementedError"]
    ELSE IF {i \in 1..(Len(args) - 1) : i % 3 = 1} = {}
    THEN [obj |-> NoTrace, err |-> "ValueError"]
    ELSE [obj |-> NoTrace, err |-> "NameError"]

\* Signal.__init__
SignalInit(name, range) ==
    [Obj("Signal", <<>>, {"name", "horizon", "range", "variables"})
        EXCEPT !.name = name, !.range = range, !.variables = {name}]

\* Const.__init__
ConstInit(val) ==
    [Obj("Const", <<>>, {"nom", "val", "var_range", "variables", "horizon"})
        EXCEPT !.val = val, !.var_range = <<val, val>>]

\* Subtract.__init__: "l.range is None or r.range is None" does not read
\* r.range when l.range is None.
SubtractInit(l, r) ==
    IF ~Has(l, "range") THEN Error("AttributeError")
    ELSE IF l.range # None /\ ~Has(r, "range") THEN Error("AttributeError")
    ELSE IF ~Has(l, "variables") \/ ~Has(r, "variables") THEN Error("AttributeError")
    ELSE [Obj("Subtract", <<l, r>>, {"nom", "left_formula", "right_formula",
                                     "range", "variables", "arity"})
            EXCEPT !.range = IF l.range = None \/ r.range = None THEN None
                             ELSE <<l.range[1] - r.range[2], l.range[2] - r.range[1]>>,
                   !.variables = l.variables \cup r.variables]

\* GreaterThan.__init__: int/float operands become Const objects first.
AsConst(o) == IF o.kind = "Number" THEN ConstInit(o.val) ELSE o

GreaterThanInit(l0, r0) ==
    LET l == AsConst(l0)
        r == AsConst(r0)
    IN  IF ~Has(l, "range") THEN Error("AttributeError")
        ELSE IF l.range # None /\ ~Has(r, "range") THEN Error("AttributeError")
        ELSE IF ~Has(l, "variables") \/ ~Has(r, "variables") THEN Error("AttributeError")
        ELSE [Obj("GreaterThan", <<l, r>>, {"left_formula", "right_formula", "range",
                                            "horizon", "variables", "arity"})
                EXCEPT !.range = IF l.range = None \/ r.range = None THEN None
                                 ELSE Ordered(l.range[1] - r.range[1],
                                              l.range[2] - r.range[2]),
                       !.variables = l.variables \cup r.variables]

\* LessThan.__init__
LessThanInit(l, r) ==
    IF ~Has(r, "var_range") \/ ~Has(l, "var_range") THEN Error("AttributeError")
    ELSE IF ~Has(l, "variables") \/ ~Has(r, "variables") THEN Error("AttributeError")
    ELSE [Obj("LessThan", <<l, r>>, {"nom", "left_formula", "right_formula",
                                     "var_range", "horizon", "variables", "arity"})
            EXCEPT !.var_range = Ordered(r.var_range[1] - l.var_range[1],
                                         r.var_range[2] - l.var_range[2]),
                   !.variables = l.variables \cup r.variables]

\* Abs.__init__
AbsInit(f) ==
    IF ~Has(f, "var_range") \/ ~Has(f, "variables") THEN Error("AttributeError")
    ELSE [Obj("Abs", <<f>>, {"nom", "formula", "var_range", "variables",
                             "horizon", "arity"})
            EXCEPT !.var_range = Ordered(AbsI(f.var_range[1]), AbsI(f.var_range[2])),
                   !.variables = f.variables]

\* Sum.__init__ (assigns no horizon)
SumInit(l, r) ==
    IF ~Has(l, "var_range") \/ ~Has(r, "var_range") THEN Error("AttributeError")
    ELSE IF ~Has(l, "variables") \/ ~Has(r, "variables") THEN Error("AttributeError")
    ELSE [Obj("Sum", <<l, r>>, {"nom", "left_formula", "right_formula",
                                "var_range", "variables", "arity"})
            EXCEPT !.var_range = <<l.var_range[1] + r.var_range[1],
                                   l.var_range[2] + r.var_range[2]>>,
                   !.variables = l.variables \cup r.variables]

\* Implication.__init__
ImplicationInit(l, r) ==
    IF ~Has(l, "var_range") \/ ~Has(r, "var_range") THEN Error("AttributeError")
    ELSE IF ~Has(l, "horizon") \/ ~Has(r, "horizon") THEN Error("AttributeError")
    ELSE IF ~Has(l, "variables") \/ ~Has(r, "variables") THEN Error("AttributeError")
    ELSE [Obj("Implication", <<l, r>>, {"nom", "left_formula", "right_formula",
                                        "var_range", "horizon", "variables", "arity"})
            EXCEPT !.var_range = <<Max2(0 - l.var_range[2], r.var_range[1]),
                                   Max2(0 - l.var_range[1], r.var_range[2])>>,
                   !.horizon = Max2(l.horizon, r.horizon),
                   !.variables = l.variables \cup r.variables]

\* Equals.__init__
EqualsInit(l, r) ==
    IF ~Has(r, "var_range") \/ ~Has(l, "var_range") THEN Error("AttributeError")
    ELSE IF ~Has(l, "variables") \/ ~Has(r, "variables") THEN Error("AttributeError")
    ELSE [Obj("Equals", <<l, r>>, {"nom", "left_formula", "right_formula",
                                   "var_range", "horizon", "variables", "arity"})
            EXCEPT !.var_range = Ordered(0 - AbsI(r.var_range[1] - l.var_range[1]),
                                         0 - AbsI(r.var_range[2] - l.var_range[2])),
                   !.variables = l.variables \cup r.variables]

\* Not.__init__
NotInit(f) ==
    IF ~Has(f, "var_range") \/ ~Has(f, "horizon") \/ ~Has(f, "variables")
    THEN Error("AttributeError")
    ELSE [Obj("Not", <<f>>, {"nom", "formula", "var_range", "horizon",
                             "variables", "arity"})
            EXCEPT !.var_range = Ordered(0 - f.var_range[1], 0 - f.var_range[2]),
                   !.horizon = f.horizon,
                   !.variables = f.variables]

\* Next.__init__
NextInit(f) ==
    IF ~Has(f, "var_range") \/ ~Has(f, "horizon") \/ ~Has(f, "variables")
    THEN Error("AttributeError")
    ELSE [Obj("Next", <<f>>, {"nom", "formula", "var_range", "horizon",
                              "variables", "arity"})
            EXCEPT !.var_range = f.var_range,
                   !.horizon = 1 + f.horizon,
                   !.variables = f.variables]

\* Global.__init__
GlobalInit(lb, ub, f) ==
    IF ~Has(f, "range") \/ ~Has(f, "horizon") \/ ~Has(f, "variables")
    THEN Error("AttributeError")
    ELSE [Obj("Global", <<f>>, {"nom", "upper_time_bound", "lower_time_bound",
                                "formula", "range", "horizon", "variables"})
            EXCEPT !.lb = lb, !.ub = ub,
                   !.range = f.range,
                   !.horizon = ub + f.horizon,
                   !.variables = f.variables]

\* Finally.__init__
FinallyInit(lb, ub, f) ==
    IF ~Has(f, "var_range") \/ ~Has(f, "horizon") \/ ~Has(f, "variables")
    THEN Error("AttributeError")
    ELSE [Obj("Finally", <<f>>, {"nom", "upper_time_bound", "lower_time_bound",
                                 "formula", "var_range", "horizon", "variables"})
            EXCEPT !.lb = lb, !.ub = ub,
                   !.var_range = f.var_range,
                   !.horizon = ub + f.horizon,
                   !.variables = f.variables]

\* Weak_Until.__init__
Weak_UntilInit(lb, ub, l, r) ==
    IF ~Has(l, "var_range") THEN Error("AttributeError")
    ELSE IF ~Has(l, "horizon") \/ ~Has(r, "horizon") THEN Error("AttributeError")
    ELSE IF ~Has(l, "variables") \/ ~Has(r, "variables") THEN Error("AttributeError")
    ELSE [Obj("Weak_Until", <<l, r>>, {"nom", "left_formula", "right_formula",
                                       "upper_time_bound", "lower_time_bound",
                                       "var_range", "horizon", "variables"})
            EXCEPT !.lb = lb, !.ub = ub,
                   !.var_range = l.var_range,
                   !.horizon = ub + Max2(l.horizon, r.horizon),
                   !.variables = l.variables \cup r.variables]

RECURSIVE MaxHorizon(_)
MaxHorizon(fs) ==
    IF Len(fs) = 1 THEN fs[1].horizon ELSE Max2(fs[1].horizon, MaxHorizon(Tail(fs)))

\* An And.__init__ that tests nu < 0 in place of nu <= 0: the variant C13
\* has to tell apart from And.__init__.
AndInitZeroNu(fs, nu) ==
    IF nu = None THEN Error("TypeError")
    ELSE IF nu[1] < 0 THEN Error("ValueError")
    ELSE IF \E i \in 1..Len(fs) : ~Has(fs[i], "variables") THEN Error("AttributeError")
    ELSE IF \E i \in 1..Len(fs) : ~Has(fs[i], "horizon") THEN Error("AttributeError")
    ELSE IF Len(fs) = 0 THEN Error("ValueError")
    ELSE IF \E i \in 1..Len(fs) : ~Has(fs[i], "range") THEN Error("AttributeError")
    ELSE IF \A i \in 1..Len(fs) : fs[i].range # None THEN Error("AttributeError")
    ELSE [Obj("And", fs, {"formulas", "nu", "variables", "horizon", "range",
                          "effective_range"})
            EXCEPT !.nu = nu,
                   !.horizon = MaxHorizon(fs),
                   !.variables = UNION {fs[i].variables : i \in 1..Len(fs)}]

\* And.__init__.  When every child's range is known the statement
\* self.range(min(A), min(B)) reads self.range before it is assigned.
AndInit(fs, nu) ==
    IF nu = None THEN Error("TypeError")
    ELSE IF nu[1] <= 0 THEN Error("ValueError")
    ELSE IF \E i \in 1..Len(fs) : ~Has(fs[i], "variables") THEN Error("AttributeError")
    ELSE IF \E i \in 1..Len(fs) : ~Has(fs[i], "horizon") THEN Error("AttributeError")
    ELSE IF Len(fs) = 0 THEN Error("ValueError")
    ELSE IF \E i \in 1..Len(fs) : ~Has(fs[i], "range") THEN Error("AttributeError")
    ELSE IF \A i \in 1..Len(fs) : fs[i].range # None THEN Error("AttributeError")
    ELSE [Obj("And", fs, {"formulas", "nu", "variables", "horizon", "range",
                          "effective_range"})
            EXCEPT !.nu = nu,
                   !.horizon = MaxHorizon(fs),
                   !.variables = UNION {fs[i].variables : i \in 1..Len(fs)}]

\* Or.__init__: self.formula = Not(And(*[Not(f) for f in args], nu=nu))
RECURSIVE FirstError(_)
FirstError(os) ==
    IF Len(os) = 0 THEN NoFormula
    ELSE IF IsError(os[1]) THEN os[1]
    ELSE FirstError(Tail(os))

OrInit(fs, nu) ==
    LET nots == [i \in 1..Len(fs) |-> NotInit(fs[i])]
        bad == FirstError(nots)
        conj == AndInit(nots, nu)
        neg == NotInit(conj)
    IN  IF IsError(bad) THEN bad
        ELSE IF IsError(conj) THEN conj
        ELSE IF IsError(neg) THEN neg
        ELSE [Obj("Or", <<neg>>, {"formula"}) EXCEPT !.nu = nu]

(***************************************************************************)
(* Evaluation.                                                             *)
(***************************************************************************)
\* numpy's elementwise binary operations with broadcasting of a length-1
\* operand; other length mismatches raise ValueError.
Elementwise(ufunc, a, b) ==
    LET F(x, y) == IF ufunc = "add" THEN FAdd(x, y) ELSE FSub(x, y)
    IN  IF Len(a) = Len(b) THEN Res([i \in 1..Len(a) |-> F(a[i], b[i])])
        ELSE IF Len(a) = 1 THEN Res([i \in 1..Len(b) |-> F(a[1], b[i])])
        ELSE IF Len(b) = 1 THEN Res([i \in 1..Len(a) |-> F(a[i], b[1])])
        ELSE Exc("ValueError")

\* Next.eval: np.roll(r, -1), then res[len - 1] = res[len - 2].
NextShift(r) ==
    IF Len(r) = 0 THEN Exc("IndexError")
    ELSE LET rolled == [i \in 1..Len(r) |-> IF i < Len(r) THEN r[i + 1] ELSE r[1]]
         IN  Res([i \in 1..Len(r) |->
                    IF i < Len(r) THEN rolled[i]
                    ELSE PyIndex(rolled, Len(r) - 2)])

\* Equals.eval: np.where(r == 0, 1, r)
ZeroToOne(r) == [i \in 1..Len(r) |-> IF r[i] = 0 THEN Unit ELSE r[i]]

\* An iteration that leaves the sample at the upper bound out of the
\* window (end_pos = upper_bound_pos): the variant C5 has to tell apart
\* from Global.eval.
GlobalAtExclusive(tr, robustness, lb, ub, pos) ==
    LET lower_bound == tr.timestamps[pos + 1] + lb
        upper_bound == tr.timestamps[pos + 1] + ub
        lower_bound_pos == search_time_index(tr, lower_bound, pos)
        upper_bound_pos == search_time_index(tr, upper_bound, lower_bound_pos)
        start_pos == lower_bound_pos
        end_pos == IF upper_bound_pos >= 0 THEN Max2(upper_bound_pos, start_pos + 1)
                   ELSE Len(tr.timestamps)
        stop == Min2(end_pos, Len(robustness))
        window == [k \in 1..(stop - start_pos) |-> robustness[start_pos + k]]
    IN  IF lower_bound_pos = 0 - 1
        THEN (IF pos >= Len(robustness) THEN [err |-> "IndexError", val |-> 0]
              ELSE [err |-> "none", val |-> PosInf])
        ELSE IF stop <= start_pos THEN [err |-> "ValueError", val |-> 0]
        ELSE IF pos >= Len(robustness) THEN [err |-> "IndexError", val |-> 0]
        ELSE [err |-> "none", val |-> FMinSeq(window)]

\* One iteration of the loop of Global.eval, for 0-based current_time_pos.
GlobalAt(tr, robustness, lb, ub, pos) ==
    LET lower_bound == tr.timestamps[pos + 1] + lb
        upper_bound == tr.timestamps[pos + 1] + ub
        lower_bound_pos == search_time_index(tr, lower_bound, pos)
        upper_bound_pos == search_time_index(tr, upper_bound, lower_bound_pos)
        start_pos == lower_bound_pos
        end_pos == IF upper_bound_pos >= 0 THEN upper_bound_pos + 1
                   ELSE Len(tr.timestamps)
        stop == Min2(end_pos, Len(robustness))
        window == [k \in 1..(stop - start_pos) |-> robustness[start_pos + k]]
    IN  IF lower_bound_pos = 0 - 1
        THEN (IF pos >= Len(robustness) THEN [err |-> "IndexError", val |-> 0]
              ELSE [err |-> "none", val |-> PosInf])
        ELSE IF stop <= start_pos THEN [err |-> "ValueError", val |-> 0]
        ELSE IF pos >= Len(robustness) THEN [err |-> "IndexError", val |-> 0]
        ELSE [err |-> "none", val |-> FMinSeq(window)]

\* Global.eval: result = np.empty(len(robustness)); the loop runs over the
\* positions of traces.timestamps from the last to the first.
GlobalEval(tr, robustness, lb, ub) ==
    LET n == Len(tr.timestamps)
        at == [p \in 0..(n - 1) |-> GlobalAt(tr, robustness, lb, ub, p)]
        bad == {p \in 0..(n - 1) : at[p].err # "none"}
    IN  IF bad # {}
        THEN Exc(at[CHOOSE p \in bad : \A q \in bad : q <= p].err)
        ELSE Res([i \in 1..Len(robustness) |->
                    IF i <= n THEN at[i - 1].val ELSE Uninit])

(***************************************************************************)
(* The smoothed And works on exponentials: fixed point, resolution Unit.   *)
(***************************************************************************)
\* a / b rounded to the nearest integer (b # 0).
QuoNear(a, b) ==
    LET q == (2 * AbsI(a) + AbsI(b)) \div (2 * AbsI(b))
    IN  IF (a < 0) = (b < 0) THEN q ELSE 0 - q

\* exp(-f / Unit) * Unit for 0 <= f <= Unit, by the Taylor series.
RECURSIVE ExpSeries(_, _, _)
ExpSeries(f, j, term) ==
    IF term = 0 THEN 0
    ELSE term + ExpSeries(f, j + 1, QuoNear((0 - term) * f, j * Unit))

ExpNegFrac(f) == ExpSeries(f, 1, Unit)

\* exp(-a / Unit) * Unit for a >= 0.
RECURSIVE ExpNeg(_)
ExpNeg(a) ==
    IF a <= Unit THEN ExpNegFrac(a)
    ELSE IF a > 20 * Unit THEN 0
    ELSE LET rest == ExpNeg(a - Unit)
         IN  IF rest = 0 THEN 0 ELSE QuoNear(rest * ExpNegFrac(Unit), Unit)

RECURSIVE SumSeq(_)
SumSeq(s) == IF Len(s) = 0 THEN 0 ELSE s[1] + SumSeq(Tail(s))

\* A loop body that gives the mean of the column where rho_min = 0 and the
\* minimum elsewhere: the variant C23 has to tell apart from And.eval.
SmoothColumnMean(col, nu) ==
    IF FMinSeq(col) = 0 THEN QuoNear(SumSeq(col), Len(col)) ELSE FMinSeq(col)

\* The body of the loop of And.eval for one instant: col is rho[:, i].
SmoothColumn(col, nu) ==
    LET rho_min == FMinSeq(col)
        M == Len(col)
        \* rho_tilde = rho[:, i] / rho_min - 1, for finite rho_min # 0
        rho_tilde == [k \in 1..M |->
                        IF col[k] = PosInf
                        THEN (IF rho_min < 0 THEN NegInf ELSE PosInf)
                        ELSE QuoNear(col[k] * Unit, rho_min) - Unit]
        \* exp(c * rho_tilde[k]) for an integer c of the sign that makes
        \* the exponent non-positive
        E(c, k) == IF IsInf(rho_tilde[k]) THEN 0
                   ELSE ExpNeg(AbsI(c * rho_tilde[k]))
    IN  IF rho_min = Uninit THEN Uninit
        ELSE IF IsNaN(rho_min) THEN 0
        ELSE IF IsInf(rho_min) THEN NaN
        ELSE IF rho_min < 0
        THEN QuoNear(rho_min * SumSeq([k \in 1..M |-> E(1 + nu, k)]),
                     SumSeq([k \in 1..M |-> E(nu, k)]))
        ELSE IF rho_min > 0
        THEN (IF \E k \in 1..M : col[k] = PosInf THEN NaN
              ELSE QuoNear(SumSeq([k \in 1..M |-> col[k] * E(nu, k)]),
                           SumSeq([k \in 1..M |-> E(nu, k)])))
        ELSE 0

\* rho: the rows are the children's vectors; rho = np.empty((M, len(r0)))
\* and rho[i, :] = r broadcasts a length-1 row.
Column(rows, i) ==
    [k \in 1..Len(rows) |-> IF Len(rows[k]) = Len(rows[1]) THEN rows[k][i]
                            ELSE rows[k][1]]

\* And.eval2 after the rows are filled: np.min(rho, axis=0)
ClassicRows(rows) ==
    [i \in 1..Len(rows[1]) |-> FMinSeq(Column(rows, i))]

\* And.eval after the rows are filled
SmoothRows(rows, nu) ==
    [i \in 1..Len(rows[1]) |-> SmoothColumn(Column(rows, i), nu)]

\* The loop that fills rho: child i is evaluated, then rho[i, :] = r; the
\* first child that raises, or whose vector does not fit, ends the loop.
RowError(rows) ==
    LET bad == {k \in 1..Len(rows) :
                   \/ rows[k].err # "none"
                   \/ Len(rows[k].vec) \notin {Len(rows[1].vec), 1}}
        k == CHOOSE i \in bad : \A j \in bad : i <= j
    IN  IF bad = {} THEN "none"
        ELSE IF rows[k].err # "none" THEN rows[k].err
        ELSE "ValueError"

\* Signal.eval: np.array(traces.signals[self.name])
SignalEval(name, tr) ==
    IF name \in DOMAIN tr.signals THEN Res(tr.signals[name])
    ELSE Exc("KeyError")

\* formula.eval(traces), by the class of the object.
RECURSIVE Eval(_, _)
Eval(o, tr) ==
    LET l == o.kids[1]
        r == o.kids[2]
        \* evaluate an object an eval method constructs on the fly
        Via(obj) == IF IsError(obj) THEN Exc(obj.name) ELSE Eval(obj, tr)
        Unary(F(_)) ==
            LET c == Eval(l, tr)
            IN  IF c.err # "none" THEN c
                ELSE Res([i \in 1..Len(c.vec) |-> F(c.vec[i])])
        Binary(ufunc) ==
            LET a == Eval(l, tr)
                b == Eval(r, tr)
            IN  IF a.err # "none" THEN a
                ELSE IF b.err # "none" THEN b
                ELSE Elementwise(ufunc, a.vec, b.vec)
        rows == [i \in 1..Len(o.kids) |-> Eval(o.kids[i], tr)]
    IN  CASE o.kind = "Signal" -> SignalEval(o.name, tr)
          [] o.kind = "Const" ->
                Res([i \in 1..Len(tr.timestamps) |-> o.val])
          [] o.kind = "Subtract" -> Binary("subtract")
          [] o.kind = "Sum" -> Binary("add")
          [] o.kind = "Abs" -> Unary(FAbs)
          [] o.kind = "Not" -> Unary(FNeg)
          [] o.kind = "GreaterThan" -> Via(SubtractInit(l, r))
          [] o.kind = "LessThan" -> Via(SubtractInit(r, l))
          [] o.kind = "Equals" ->
                LET sub == SubtractInit(l, r)
                    abs == IF IsError(sub) THEN sub ELSE AbsInit(sub)
                    neg == IF IsError(abs) THEN abs ELSE NotInit(abs)
                    v == Via(neg)
                IN  IF v.err # "none" THEN v ELSE Res(ZeroToOne(v.vec))
          [] o.kind = "Implication" ->
                LET neg == NotInit(l)
                IN  IF IsError(neg) THEN Exc(neg.name)
                    ELSE Via(OrInit(<<neg, r>>, <<1>>))
          [] o.kind = "Next" ->
                LET c == Eval(l, tr)
                IN  IF c.err # "none" THEN c ELSE NextShift(c.vec)
          [] o.kind = "Global" ->
                LET c == Eval(l, tr)
                IN  IF c.err # "none" THEN c
                    ELSE GlobalEval(tr, c.vec, o.lb, o.ub)
          [] o.kind = "Finally" ->
                LET neg == NotInit(l)
                    glob == IF IsError(neg) THEN neg ELSE GlobalInit(o.lb, o.ub, neg)
                    outer == IF IsError(glob) THEN glob ELSE NotInit(glob)
                IN  Via(outer)
          [] o.kind = "Or" -> Eval(l, tr)
          [] o.kind = "And" ->
                IF RowError(rows) # "none" THEN Exc(RowError(rows))
                ELSE Res(SmoothRows([i \in 1..Len(rows) |-> rows[i].vec], o.nu[1]))
          \* Weak_Until.eval(self, traces, time): eval(traces) lacks an argument
          [] o.kind = "Weak_Until" -> Exc("TypeError")
          [] OTHER -> Exc("AttributeError")

\* And.eval2: the children are evaluated with their eval methods.
eval2(o, tr) ==
    LET rows == [i \in 1..Len(o.kids) |-> Eval(o.kids[i], tr)]
        vecs == [i \in 1..Len(rows) |-> rows[i].vec]
    IN  IF RowError(rows) # "none" THEN Exc(RowError(rows))
        ELSE Res(ClassicRows(vecs))

\* Weak_Until.eval, first loop: i = 0; while timestamps[i] < lower_time_bound:
\* i += 1.  The index runs off the list when no timestamp reaches the bound
\* (IndexError, here -1).
RECURSIVE FirstAtOrAfter(_, _, _)
FirstAtOrAfter(timestamps, lb, i) ==
    IF i >= Len(timestamps) THEN 0 - 1
    ELSE IF timestamps[i + 1] < lb THEN FirstAtOrAfter(timestamps, lb, i + 1)
    ELSE i

\* Weak_Until.eval, second loop: while i < len(timestamps) and
\* timestamps[i] <= upper_time_bound and right[i] < 0: the minimum of m and
\* left[i] is kept and i advances.
RECURSIVE UntilScan(_, _, _, _, _, _)
UntilScan(timestamps, left, right, ub, i, m) ==
    IF i < Len(timestamps) /\ timestamps[i + 1] <= ub
    THEN IF i >= Len(right) THEN Exc("IndexError")
         ELSE IF right[i + 1] < 0
         THEN IF i >= Len(left) THEN Exc("IndexError")
              ELSE UntilScan(timestamps, left, right, ub, i + 1,
                             IF m > left[i + 1] THEN left[i + 1] ELSE m)
         ELSE Res(<<m>>)
    ELSE Res(<<m>>)

\* Weak_Until.eval(self, traces, time): time is not read; both bounds are
\* compared with the timestamps themselves; the minimum starts from
\* var_range[1]; the result is np.full(len(left), minimum).
Weak_UntilEval(o, tr, time) ==
    LET first == FirstAtOrAfter(tr.timestamps, o.lb, 0)
        l == Eval(o.kids[1], tr)
        r == Eval(o.kids[2], tr)
    IN  IF first < 0 THEN Exc("IndexError")
        ELSE IF o.var_range = None THEN Exc("TypeError")
        ELSE IF l.err # "none" THEN l
        ELSE IF r.err # "none" THEN r
        ELSE LET m == UntilScan(tr.timestamps, l.vec, r.vec, o.ub, first, o.var_range[2])
             IN  IF m.err # "none" THEN m
                 ELSE Res([i \in 1..Len(l.vec) |-> m.vec[1]])

(***************************************************************************)
(* Constructor expressions (terms) and their evaluation by Python:         *)
(* arguments first, left to right, then the class's __init__.              *)
(***************************************************************************)
Term(op, args) ==
    [op |-> op, args |-> args, name |-> "", val |-> 0, lb |-> 0, ub |-> 0,
     nu |-> None, range |-> None]

TSignal(name, range) == [Term("Signal", <<>>) EXCEPT !.name = name, !.range = range]
TConst(v) == [Term("Const", <<>>) EXCEPT !.val = v]
TNumber(v) == [Term("Number", <<>>) EXCEPT !.val = v]
TTimed(op, lb, ub, args) == [Term(op, args) EXCEPT !.lb = lb, !.ub = ub]
TNary(op, args, nu) == [Term(op, args) EXCEPT !.nu = nu]

RECURSIVE Build(_)
Build(t) ==
    LET kids == [i \in 1..Len(t.args) |-> Build(t.args[i])]
        bad == FirstError(kids)
    IN  IF IsError(bad) THEN bad
        ELSE CASE t.op = "Signal" -> SignalInit(t.name, t.range)
               [] t.op = "Const" -> ConstInit(t.val)
               [] t.op = "Number" -> Number(t.val)
               [] t.op = "Subtract" -> SubtractInit(kids[1], kids[2])
               [] t.op = "GreaterThan" -> GreaterThanInit(kids[1], kids[2])
               [] t.op = "LessThan" -> LessThanInit(kids[1], kids[2])
               [] t.op = "Abs" -> AbsInit(kids[1])
               [] t.op = "Sum" -> SumInit(kids[1], kids[2])
               [] t.op = "Implication" -> ImplicationInit(kids[1], kids[2])
               [] t.op = "Equals" -> EqualsInit(kids[1], kids[2])
               [] t.op = "Not" -> NotInit(kids[1])
               [] t.op = "Next" -> NextInit(kids[1])
               [] t.op = "Global" -> GlobalInit(t.lb, t.ub, kids[1])
               [] t.op = "Finally" -> FinallyInit(t.lb, t.ub, kids[1])
               [] t.op = "Weak_Until" -> Weak_UntilInit(t.lb, t.ub, kids[1], kids[2])
               [] t.op = "And" -> AndInit(kids, t.nu)
               [] t.op = "Or" -> OrInit(kids, t.nu)

(***************************************************************************)
(* stlParserVisitor: the fold of a parse tree into formula objects.  A     *)
(* context is a Term whose op is the grammar rule, whose args are its      *)
(* children (tokens included) and whose name is a token's text.  The class *)
(* names of the visitor are those of Robustness.py; a name Robustness.py   *)
(* does not define (StrictlyLessThan, StrictlyGreaterThan, Until) raises   *)
(* NameError when it is looked up.                                         *)
(***************************************************************************)
Ctx(rule, kids) == Term(rule, kids)
Tok(text) == [Term("token", <<>>) EXCEPT !.name = text]
NumTok(v) == [Term("token", <<>>) EXCEPT !.val = v]

\* ctx.getRuleContext().getChild(i) and getChildCount()
getChild(ctx, i) == ctx.args[i + 1]
getChildCount(ctx) == Len(ctx.args)

\* The attributes a caller may have set on the visitor: nu (None when the
\* attribute is absent) and ranges (None when absent, else name -> range).
VisitorOf(nu, ranges) == [nu |-> nu, ranges |-> ranges]

\* visitInterval: [float(child 1), float(child 3)]
visitInterval(ctx) == <<getChild(ctx, 1).val, getChild(ctx, 3).val>>

\* visitSignalName
visitSignalName(ctx, v) ==
    SignalInit(ctx.name,
               IF v.ranges # None /\ ctx.name \in DOMAIN v.ranges
               THEN v.ranges[ctx.name] ELSE None)

\* visitParenPhiExpr, after the child was visited: child.parenthesized = True
MarkParenthesized(child) ==
    IF IsError(child) THEN child
    ELSE [child EXCEPT !.attrs = @ \cup {"parenthesized"}]

\* The argument list visitOpAndExpr collects from the two visited operands.
AndFormulas(phi1, phi2) ==
    (IF phi1.kind = "And" /\ ~Has(phi1, "parenthesized") THEN phi1.kids ELSE <<phi1>>)
    \o (IF phi2.kind = "And" /\ ~Has(phi2, "parenthesized") THEN phi2.kids ELSE <<phi2>>)

\* visitOpAndExpr, after the operands were visited
visitOpAndExpr(phi1, phi2, v) ==
    IF IsError(phi1) THEN phi1
    ELSE IF IsError(phi2) THEN phi2
    ELSE AndInit(AndFormulas(phi1, phi2), v.nu)

\* visitOpOrExpr, after the operands were visited: an Or object holds
\* .formula and no .formulas
visitOpOrExpr(phi1, phi2, v) ==
    IF IsError(phi1) THEN phi1
    ELSE IF IsError(phi2) THEN phi2
    ELSE IF phi1.kind = "Or" /\ ~Has(phi1, "parenthesized") THEN Error("AttributeError")
    ELSE IF phi2.kind = "Or" /\ ~Has(phi2, "parenthesized") THEN Error("AttributeError")
    ELSE OrInit(<<phi1, phi2>>, v.nu)

\* visitPredicateExpr, after the operands were visited
visitPredicateExpr(phi1, operator, phi2) ==
    IF IsError(phi1) THEN phi1
    ELSE IF IsError(phi2) THEN phi2
    ELSE CASE operator = "<=" -> LessThanInit(phi1, phi2)
           [] operator = ">=" -> GreaterThanInit(phi1, phi2)
           [] operator \in {"<", ">"} -> Error("NameError")
           [] operator = "==" -> EqualsInit(phi1, phi2)
           [] OTHER -> LET eq == EqualsInit(phi1, phi2)
                       IN  IF IsError(eq) THEN eq ELSE NotInit(eq)

\* self.visit(ctx): the visit method of the context's rule.
RECURSIVE visit(_, _)
visit(ctx, v) ==
    LET n == getChildCount(ctx)
        sub(i) == visit(getChild(ctx, i), v)
    IN  CASE ctx.op = "signalName" -> visitSignalName(ctx, v)
          [] ctx.op = "predicateExpr" ->
                visitPredicateExpr(sub(0), getChild(ctx, 1).name, sub(2))
          [] ctx.op = "parenPhiExpr" -> MarkParenthesized(sub(1))
          [] ctx.op = "opAndExpr" -> visitOpAndExpr(sub(0), sub(2), v)
          [] ctx.op = "opOrExpr" -> visitOpOrExpr(sub(0), sub(2), v)
          [] ctx.op = "opNegExpr" ->
                IF IsError(sub(1)) THEN sub(1) ELSE NotInit(sub(1))
          [] ctx.op = "opNextExpr" ->
                IF IsError(sub(1)) THEN sub(1) ELSE NextInit(sub(1))
          [] ctx.op = "opGloballyExpr" ->
                IF n = 2 THEN Error("NotImplementedError")
                ELSE IF n # 3 THEN Error("UnboundLocalError")
                ELSE IF IsError(sub(2)) THEN sub(2)
                ELSE LET interval == visitInterval(getChild(ctx, 1))
                     IN  GlobalInit(interval[1], interval[2], sub(2))
          [] ctx.op = "opFutureExpr" ->
                IF n = 2 THEN Error("NotImplementedError")
                ELSE IF n # 3 THEN Error("UnboundLocalError")
                ELSE IF IsError(sub(2)) THEN sub(2)
                ELSE LET interval == visitInterval(getChild(ctx, 1))
                     IN  FinallyInit(interval[1], interval[2], sub(2))
          [] ctx.op = "opUntilExpr" ->
                IF IsError(sub(0)) THEN sub(0)
                ELSE IF n = 3 THEN Error("NotImplementedError")
                ELSE IF n # 4 THEN NoFormula      \* the method returns None
                ELSE IF IsError(sub(3)) THEN sub(3)
                ELSE Error("NameError")
          [] OTHER -> Error("AttributeError")

(***************************************************************************)
(* Inputs.                                                                 *)
(***************************************************************************)
SeqsOf(S, n) == [1..n -> S]
UpTo(S, n) == UNION {SeqsOf(S, k) : k \in 0..n}

\* Timelines: strictly increasing timestamps out of 0..MaxLen, from time 0.
Timelines(n) ==
    {s \in SeqsOf(0..MaxLen, n) :
        /\ n > 0 => s[1] = 0
        /\ \A i \in 1..(n - 1) : s[i] < s[i + 1]}

\* The trace of the specification's examples: timestamps 0..3 and
\* x = 1, -1, 2, -2.
ExampleTimestamps == <<0, 1, 2, 3>>
ExampleSignals == [n \in {"x"} |-> <<Unit, 0 - Unit, 2 * Unit, 0 - 2 * Unit>>]

\* Arguments of Traces(timestamps, signals): every timeline with every
\* dictionary of one or two signals, each of any length up to the bound.
TraceArgs ==
    {<<ts, sg>> :
        ts \in UNION {Timelines(n) : n \in 0..MaxLen},
        sg \in [{"x"} -> UpTo(Values, MaxLen)]}
    \cup
    {<<ts, sg>> :
        ts \in UNION {Timelines(n) : n \in 0..MaxPair},
        sg \in [Names -> UpTo(Values, MaxPair)]}
    \cup {<<ExampleTimestamps, ExampleSignals>>}

\* Arguments of Traces.Add: either name, a signal one sample shorter than,
\* as long as, or one sample longer than the timeline.
AddArgs(tr) ==
    {<<n, [i \in 1..k |-> 0]>> :
        n \in Names,
        k \in {Len(tr.timestamps) - 1, Len(tr.timestamps), Len(tr.timestamps) + 1} \cap Nat}

\* Arguments of Traces.from_mixed_signals: no signal, one signal x of one
\* or two samples, and x with y on another timeline.
MergeArgs ==
    {<<>>}
    \cup UNION {{<<"x", ts, vs>> : ts \in Timelines(n), vs \in SeqsOf(Values, n)} :
                   n \in 1..(MaxPair + 1)}
    \cup {<<"x", <<0, 1, 2>>, xs, "y", <<0, 2>>, ys>> :
             xs \in SeqsOf(Values, 3), ys \in SeqsOf(Values, 2)}

\* sampling_period: absent, 1 or 2.
Periods == {None, <<1>>, <<2>>}

\* Formulas.
X == TSignal("x", None)
XR == TSignal("x", <<0 - Unit, 2 * Unit>>)
Y == TSignal("y", None)
YR == TSignal("y", <<0 - Unit, 2 * Unit>>)
K3 == TConst(3 * Unit)
N0 == TNumber(0)

Bounds == {<<0, 0>>, <<0, 1>>, <<0, 2>>, <<1, 2>>, <<2, 1>>}
\* Bounds of Weak_Until: the last one lies beyond every timestamp.
UntilBounds == {<<0, 1>>, <<1, 2>>, <<MaxLen + 1, MaxLen + 2>>}
Nus == {<<1>>, <<0>>, <<0 - 1>>, None}
BinaryOps == {"Subtract", "Sum", "GreaterThan", "LessThan", "Equals", "Implication"}

T1(op, a) == Term(op, <<a>>)
T2(op, a, b) == Term(op, <<a, b>>)

GtX0 == T2("GreaterThan", X, N0)
GtXY == T2("GreaterThan", X, Y)
G01X == TTimed("Global", 0, 1, <<X>>)
G12X == TTimed("Global", 1, 2, <<X>>)
AndXY == TNary("And", <<X, Y>>, <<1>>)
AndYX == TNary("And", <<Y, X>>, <<1>>)

\* Formulas over the signal x and constants.
TermsX ==
    {X, XR, K3}
    \cup {T2(op, a, b) : op \in BinaryOps, a \in {X, XR, K3, N0}, b \in {X, XR, K3, N0}}
    \cup {T1(op, a) : op \in {"Not", "Abs", "Next"}, a \in {X, XR, K3, N0}}
    \cup {TTimed("Global", b[1], b[2], <<a>>) :
            b \in Bounds,
            a \in {X, XR, K3, GtX0, T2("GreaterThan", XR, N0), G01X, T1("Not", K3),
                   T2("Subtract", X, K3)}}
    \cup {TTimed("Finally", b[1], b[2], <<a>>) : b \in Bounds, a \in {X, K3}}
    \cup {TTimed("Weak_Until", b[1], b[2], <<l, r>>) :
            b \in UntilBounds, l \in {X, K3}, r \in {X, K3}}
    \cup {T1("Not", T1("Not", a)) :
            a \in {X, XR, K3, GtX0, G01X, T1("Not", K3), T1("Next", K3),
                   T2("Equals", K3, K3), T2("LessThan", K3, K3),
                   TTimed("Finally", 0, 1, <<K3>>)}}
    \cup {T1("Next", a) : a \in {T1("Not", K3), T1("Next", K3), T2("Equals", K3, K3)}}
    \cup {TNary(op, args, nu) : op \in {"And", "Or"}, args \in UpTo({X, XR, K3}, 2),
                                nu \in Nus}
    \cup {TNary("And", args, <<2>>) : args \in SeqsOf({X, GtX0, G01X}, 2)}
    \cup {TNary("And", <<G12X>>, <<1>>), TNary("And", <<G12X, G12X>>, <<2>>)}
    \cup {T2("GreaterThan", G01X, X), TTimed("Global", 0, 1, <<T2("GreaterThan", G01X, X)>>)}

\* Formulas that also read the signal y.
TermsXY ==
    {Y}
    \cup {T2(op, a, b) : op \in BinaryOps, a \in {X, XR, Y, K3}, b \in {Y}}
    \cup {T2(op, a, b) : op \in BinaryOps, a \in {Y}, b \in {X, XR, K3, N0}}
    \cup {T1("Not", T1("Not", a)) : a \in {Y, GtXY}}
    \cup {T2(op, XR, YR) : op \in {"Subtract", "GreaterThan", "LessThan"}}
    \cup {TTimed("Global", b[1], b[2], <<a>>) : b \in Bounds, a \in {Y, GtXY, AndXY}}
    \cup {TNary(op, args, nu) : op \in {"And", "Or"}, nu \in {<<1>>, <<2>>},
                                args \in SeqsOf({X, Y}, 2) \cup SeqsOf({X, Y}, 3)}
    \cup {TNary("And", args, nu) : nu \in {<<1>>, <<2>>},
                                   args \in SeqsOf({X, Y, AndXY, AndYX, GtXY}, 2)}

\* Parse trees.  PName is a signal name, PPred a comparison, PParen a
\* parenthesized formula, PBin "l and r" or "l or r", PTimed a temporal
\* operator with its interval [a, b] and PBare one without.
PName(name) == [Ctx("signalName", <<>>) EXCEPT !.name = name]
PPred(l, operator, r) == Ctx("predicateExpr", <<l, Tok(operator), r>>)
PParen(e) == Ctx("parenPhiExpr", <<Tok("("), e, Tok(")")>>)
PBin(rule, word, l, r) == Ctx(rule, <<l, Tok(word), r>>)
PAnd(l, r) == PBin("opAndExpr", "and", l, r)
POr(l, r) == PBin("opOrExpr", "or", l, r)
PInterval(a, b) == Ctx("interval", <<Tok("["), NumTok(a), Tok(","), NumTok(b), Tok("]")>>)
PTimed(rule, word, a, b, e) == Ctx(rule, <<Tok(word), PInterval(a, b), e>>)
PBare(rule, word, e) == Ctx(rule, <<Tok(word), e>>)
PUntil(l, a, b, r) == Ctx("opUntilExpr", <<l, Tok("U"), PInterval(a, b), r>>)
PUntilBare(l, r) == Ctx("opUntilExpr", <<l, Tok("U"), r>>)

\* "x >= y", "y >= x", "x >= x"
PA == PPred(PName("x"), ">=", PName("y"))
PB == PPred(PName("y"), ">=", PName("x"))
PC == PPred(PName("x"), ">=", PName("x"))

Conjuncts == {<<PA, PB, PC>>, <<PC, PA, PB>>, <<PA, PA, PB>>}
Unary == {<<"opGloballyExpr", "G">>, <<"opFutureExpr", "F">>}

\* The shapes of "A w B", "A w B w C" (grouped to the left and to the
\* right by the grammar), "A w (B w C)", "(A w B) w C" and
\* "A w B w C w A", for w in {and, or}.
Chains(rule, word) ==
    UNION {{PBin(rule, word, c[1], c[2]),
            PBin(rule, word, PBin(rule, word, c[1], c[2]), c[3]),
            PBin(rule, word, c[1], PBin(rule, word, c[2], c[3])),
            PBin(rule, word, c[1], PParen(PBin(rule, word, c[2], c[3]))),
            PBin(rule, word, PParen(PBin(rule, word, c[1], c[2])), c[3]),
            PBin(rule, word,
                 PBin(rule, word, PBin(rule, word, c[1], c[2]), c[3]), c[1])} :
           c \in Conjuncts}

Trees ==
    {PA, PC, PParen(PA), PPred(PName("x"), ">", PName("y")),
     PPred(PName("x"), "<=", PName("y")), PPred(PName("x"), "==", PName("y")),
     Ctx("opNegExpr", <<Tok("not"), PA>>), Ctx("opNextExpr", <<Tok("X"), PA>>)}
    \cup Chains("opAndExpr", "and") \cup Chains("opOrExpr", "or")
    \cup {PAnd(POr(PA, PB), PC), POr(PAnd(PA, PB), PC)}
    \cup {PTimed(u[1], u[2], b[1], b[2], e) : u \in Unary, b \in Bounds, e \in {PA, PAnd(PA, PB)}}
    \cup {PBare(u[1], u[2], e) : u \in Unary, e \in {PA}}
    \cup {PUntil(PA, b[1], b[2], PB) : b \in Bounds} \cup {PUntilBare(PA, PB)}

\* What a caller has set on the visitor before the visit.
Visitors ==
    {VisitorOf(nu, ranges) :
        nu \in {None, <<0>>, <<1>>, <<2>>},
        ranges \in {None, [n \in {"x"} |-> <<0 - Unit, 2 * Unit>>]}}

\* Formulas that read y, at the top and below it, offered for a trace
\* without y.
TermsMissing ==
    {Y, GtXY, T2("GreaterThan", Y, X), T2("Subtract", X, Y), AndXY, AndYX,
     TTimed("Global", 0, 1, <<Y>>), TTimed("Global", 1, 2, <<GtXY>>),
     TTimed("Global", 0, 1, <<AndXY>>), TNary("And", <<G01X, GtXY>>, <<1>>),
     TNary("And", <<X, AndXY>>, <<2>>),
     TNary("And", <<T2("GreaterThan", X, T2("Equals", K3, K3)), Y>>, <<1>>)}

\* Formulas offered after the trace was changed by Add.
TermsAdd ==
    {X, Y, K3, GtXY, T2("GreaterThan", Y, X), T2("Subtract", X, Y), G01X,
     TTimed("Global", 0, 1, <<Y>>), TTimed("Global", 0, 1, <<GtXY>>), AndXY, AndYX,
     T1("Not", K3), T1("Next", K3)}

TermsFor(tr, n) ==
    IF n > 0 THEN TermsAdd
    ELSE IF "y" \in DOMAIN tr.signals THEN TermsX \cup TermsXY
    ELSE TermsX \cup TermsMissing

(***************************************************************************)
(* The state machine: a Traces object is made and used through its         *)
(* methods, then a formula is constructed and evaluated against it.        *)
(***************************************************************************)
Start == Ok("start", <<>>, <<>>, 0)

Init ==
    /\ trace = NoTrace
    /\ req = Term("none", <<>>)
    /\ formula = NoFormula
    /\ last = Start
    /\ adds = 0

\* Traces(timestamps, signals)
NewTrace ==
    /\ last = Start
    /\ \E a \in TraceArgs :
          LET made == TracesInit(a[1], a[2])
          IN  /\ trace' = made.obj
              /\ last' = [Ok("Traces", a, <<>>, 0) EXCEPT !.err = made.err]
    /\ UNCHANGED <<req, formula, adds>>

\* Traces.from_mixed_signals(*args, sampling_period=p)
Merge ==
    /\ last = Start
    /\ \E a \in MergeArgs, p \in Periods :
          LET made == from_mixed_signals(a, p)
          IN  /\ trace' = made.obj
              /\ last' = [Ok("from_mixed_signals", <<a, p>>, <<>>, 0)
                            EXCEPT !.err = made.err]
    /\ UNCHANGED <<req, formula, adds>>

\* traces.Add(name, signal)
Add ==
    /\ trace.exists
    /\ formula = NoFormula
    /\ adds < MaxAdds
    /\ \E a \in AddArgs(trace) :
          /\ trace' = TracesAdd(trace, a[1], a[2])
          /\ last' = Ok("Add", a, <<>>, 0)
    /\ adds' = adds + 1
    /\ UNCHANGED <<req, formula>>

\* traces.Get(name)
Get ==
    /\ trace.exists
    /\ formula = NoFormula
    /\ \E n \in Names :
          LET got == TracesGet(trace, n)
          IN  last' = [Ok("Get", <<n>>, got.vec, 0) EXCEPT !.err = got.err]
    /\ UNCHANGED <<trace, req, formula, adds>>

\* traces.search_time_index(t, start)
Search ==
    /\ trace.exists
    /\ formula = NoFormula
    /\ \E t \in 0..(MaxLen + 1), start \in (0 - 1)..Len(trace.timestamps) :
          \* timestamps[-1] of an empty list
          last' = IF start < 0 /\ Len(trace.timestamps) = 0
                  THEN Raise("search", <<t, start>>, "IndexError")
                  ELSE Ok("search", <<t, start>>, <<>>,
                          search_time_index(trace, t, start))
    /\ UNCHANGED <<trace, req, formula, adds>>

\* a constructor expression is evaluated, right after the trace was set up
Construct ==
    /\ trace.exists
    /\ formula = NoFormula
    /\ last.op \in {"Traces", "Add"}
    /\ \E t \in TermsFor(trace, adds) :
          LET o == Build(t)
          IN  /\ req' = t
              /\ formula' = o
              /\ last' = IF IsError(o) THEN Raise("construct", <<>>, o.name)
                         ELSE Ok("construct", <<>>, <<>>, 0)
    /\ UNCHANGED <<trace, adds>>

\* visitor.visit(tree) for a parse tree, right after the trace was set up
Parse ==
    /\ trace.exists
    /\ formula = NoFormula
    /\ last.op = "Traces"
    /\ \E t \in Trees, v \in Visitors :
          LET o == visit(t, v)
          IN  /\ req' = t
              /\ formula' = o
              /\ last' = IF IsError(o) THEN Raise("visit", <<v>>, o.name)
                         ELSE Ok("visit", <<v>>, <<>>, 0)
    /\ UNCHANGED <<trace, adds>>

\* Elements of a result that numpy never assigned hold any value.
Fill == {0, PosInf}

Returned(op, res) ==
    LET holes == {i \in 1..Len(res.vec) : res.vec[i] = Uninit}
    IN  {[op |-> op, arg |-> <<>>, err |-> res.err, num |-> 0,
          vec |-> [i \in 1..Len(res.vec) |->
                     IF i \in holes THEN fill[i] ELSE res.vec[i]]] :
            fill \in [holes -> Fill]}

\* formula.eval(traces)
Evaluate ==
    /\ trace.exists
    /\ ~IsError(formula) /\ formula # NoFormula
    /\ last' \in Returned("eval", Eval(formula, trace))
    /\ UNCHANGED <<trace, req, formula, adds>>

\* formula.eval2(traces) of an And object
Evaluate2 ==
    /\ trace.exists
    /\ formula.kind = "And"
    /\ last' \in Returned("eval2", eval2(formula, trace))
    /\ UNCHANGED <<trace, req, formula, adds>>

\* formula.eval(traces, time) of a Weak_Until object
EvaluateAt ==
    /\ trace.exists
    /\ formula.kind = "Weak_Until"
    /\ \E time \in 0..1 :
          last' \in {[e EXCEPT !.arg = <<time>>] :
                        e \in Returned("eval_at", Weak_UntilEval(formula, trace, time))}
    /\ UNCHANGED <<trace, req, formula, adds>>

Next ==
    NewTrace \/ Merge \/ Add \/ Get \/ Search \/ Construct \/ Parse \/ Evaluate \/ Evaluate2 \/ EvaluateAt

Spec == Init /\ [][Next]_vars

(***************************************************************************)
(* Properties of the specification, stated over the state machine.         *)
(***************************************************************************)
\* Every signal of the trace has one sample per timestamp.
Healthy(tr) ==
    \A n \in DOMAIN tr.signals : Len(tr.signals[n]) = Len(tr.timestamps)

\* The signal names a constructor expression reads.
RECURSIVE SignalsOf(_)
SignalsOf(t) ==
    IF t.op \in {"Signal", "signalName"} THEN {t.name}
    ELSE UNION {SignalsOf(t.args[i]) : i \in 1..Len(t.args)}

\* The trace is well formed and holds every signal the request reads.
Applicable == trace.exists /\ Healthy(trace) /\ SignalsOf(req) \subseteq DOMAIN trace.signals

\* A signal, a Const or a plain number.
IsLeaf(t) == t.op \in {"Signal", "Const", "Number"}

\* A signal or a Const.
IsAtom(t) == t.op \in {"Signal", "Const"}

\* The value of a leaf at the i-th instant of the trace.
LeafAt(t, tr, i) == IF t.op = "Signal" THEN tr.signals[t.name][i] ELSE t.val

\* C1: Traces(timestamps, signals) raises ValueError exactly when some signal's
\* length differs from the number of timestamps; otherwise the object holds
\* the timestamps and the signals it was given.
C1_TracesLengthCheck ==
    last.op = "Traces" =>
        LET ts == last.arg[1]
            sg == last.arg[2]
            mismatch == \E n \in DOMAIN sg : Len(sg[n]) # Len(ts)
        IN  /\ mismatch => (last.err = "ValueError" /\ ~trace.exists)
            /\ ~mismatch => /\ last.err = "none"
                            /\ trace.exists
                            /\ trace.timestamps = ts
                            /\ trace.signals = sg

\* C1's case: a construction rejected although the signal x fits the
\* timestamps, because the signal y does not.
C1_Witness ==
    /\ last.op = "Traces"
    /\ last.err = "ValueError"
    /\ Len(last.arg[1]) > 0
    /\ DOMAIN last.arg[2] = {"x", "y"}
    /\ Len(last.arg[2]["x"]) = Len(last.arg[1])
    /\ Len(last.arg[2]["y"]) # Len(last.arg[1])

\* C2: every signal of a Traces object has exactly one sample per timestamp, at
\* every moment of the object's life.
C2_SignalsMatchTimestamps ==
    trace.exists => Healthy(trace)

\* C3: evaluating a constructed formula of any node kind against a trace
\* (here: well formed, not empty, holding the signals the formula reads)
\* returns one robustness value per timestamp.
C3_OneValuePerTimestamp ==
    (last.op = "eval" /\ Applicable /\ Len(trace.timestamps) > 0) =>
        (last.err = "none" /\ Len(last.vec) = Len(trace.timestamps))

\* C4: a comparison of two operands, each a signal, a Const or a plain number
\* and one of them a signal or a Const, is constructed and evaluated without
\* an exception; GreaterThan(l, r) is l - r and LessThan(l, r) is r - l at
\* every instant.
C4_ComparisonRobustness ==
    (/\ req.op \in {"GreaterThan", "LessThan"}
     /\ IsLeaf(req.args[1]) /\ IsLeaf(req.args[2])
     /\ IsAtom(req.args[1]) \/ IsAtom(req.args[2])
     /\ Applicable) =>
        /\ last.err = "none"
        /\ last.op = "eval" =>
              /\ Len(last.vec) = Len(trace.timestamps)
              /\ \A i \in 1..Len(last.vec) :
                    LET l == LeafAt(req.args[1], trace, i)
                        r == LeafAt(req.args[2], trace, i)
                    IN  last.vec[i] = IF req.op = "GreaterThan" THEN l - r ELSE r - l

\* The least of a set of robustness values, as np.min gives it.
LeastOf(S) == IF NaN \in S THEN NaN ELSE CHOOSE m \in S : \A o \in S : m <= o

\* The value C5 gives Global(lb, ub, f) at the i-th instant (1-based), for
\* f's robustness r over the timestamps ts.
WindowMin(ts, r, lb, ub, i) ==
    LET lo == {j \in 1..Len(ts) : ts[j] = ts[i] + lb}
        hi == {k \in 1..Len(ts) : ts[k] = ts[i] + ub}
        j == CHOOSE m \in lo : TRUE
        k == IF hi = {} THEN Len(ts) ELSE CHOOSE m \in hi : TRUE
    IN  IF lo = {} THEN PosInf ELSE LeastOf({r[m] : m \in j..k})

\* C5: with 0 <= lb <= ub, Global(lb, ub, f) is at every instant t[i] the
\* minimum of f's robustness from the sample at t[i] + lb up to and including
\* the sample at t[i] + ub, up to the trace end when no sample is at
\* t[i] + ub, and +infinity when no sample is at t[i] + lb; G[0,2](x > 0) on
\* timestamps 0, 1, 2, 3 and x = 1, -1, 2, -2 is -1, -2, -2, -2.
C5_GlobalWindowMinimum ==
    (/\ last.op = "eval"
     /\ formula.kind = "Global"
     /\ 0 <= formula.lb /\ formula.lb <= formula.ub) =>
        LET f == Eval(formula.kids[1], trace)
            n == Len(trace.timestamps)
        IN  /\ (f.err = "none" /\ Len(f.vec) = n) =>
                  /\ last.err = "none"
                  /\ Len(last.vec) = n
                  /\ \A i \in 1..n :
                        last.vec[i] =
                            WindowMin(trace.timestamps, f.vec, formula.lb, formula.ub, i)
            /\ (/\ req = TTimed("Global", 0, 2, <<GtX0>>)
                /\ trace.timestamps = ExampleTimestamps
                /\ trace.signals = ExampleSignals) =>
                  last.vec = <<0 - Unit, 0 - 2 * Unit, 0 - 2 * Unit, 0 - 2 * Unit>>

\* C5's case: Global(1, 2, x) evaluated on timestamps 0, 1, 2, where the
\* first instant has both bounds on samples, the second only the lower one,
\* and the last neither.
C5_Witness ==
    /\ last.op = "eval"
    /\ req = TTimed("Global", 1, 2, <<X>>)
    /\ trace.timestamps = <<0, 1, 2>>
    /\ trace.signals = [n \in {"x"} |-> <<0 - Unit, 2 * Unit, 0 - Unit>>]
    /\ last.vec = <<0 - Unit, 0 - Unit, PosInf>>

\* C6: Equals(l, r) of two operands, each a signal or a Const, is
\* constructed and evaluated without an exception and is at every instant
\* -|l - r| where l and r differ and +1 where they are equal.
C6_EqualsRobustness ==
    (/\ req.op = "Equals"
     /\ IsAtom(req.args[1]) /\ IsAtom(req.args[2])
     /\ Applicable) =>
        /\ last.err = "none"
        /\ last.op = "eval" =>
              /\ Len(last.vec) = Len(trace.timestamps)
              /\ \A i \in 1..Len(last.vec) :
                    LET l == LeafAt(req.args[1], trace, i)
                        r == LeafAt(req.args[2], trace, i)
                    IN  last.vec[i] = IF l = r THEN Unit ELSE 0 - AbsI(l - r)

\* What evaluating the constructor expression t against tr gives: the
\* exception of the construction, or of the evaluation, or the vector.
Value(t, tr) ==
    LET o == Build(t) IN IF IsError(o) THEN Exc(o.name) ELSE Eval(o, tr)

\* C7: for a formula phi that evaluates, Not(Not(phi)) is constructed and
\* evaluates to the vector of phi.
C7_DoubleNegation ==
    (/\ req.op = "Not"
     /\ req.args[1].op = "Not"
     /\ Applicable
     /\ Value(req.args[1].args[1], trace).err = "none") =>
        /\ last.err = "none"
        /\ last.op = "eval" => last.vec = Value(req.args[1].args[1], trace).vec

\* C8: for formulas phi1 and phi2 that evaluate and nu > 0, Or(phi1, phi2)
\* with parameter nu is constructed and evaluates to the vector of
\* Not(And(Not(phi1), Not(phi2))) with the same nu.
C8_DeMorgan ==
    (/\ req.op = "Or"
     /\ Len(req.args) = 2
     /\ req.nu # None /\ req.nu[1] > 0
     /\ Applicable
     /\ \A i \in 1..2 : Value(req.args[i], trace).err = "none") =>
        /\ last.err = "none"
        /\ last.op = "eval" =>
              Res(last.vec) =
                  Value(T1("Not", TNary("And", <<T1("Not", req.args[1]),
                                                 T1("Not", req.args[2])>>, req.nu)),
                        trace)

\* C9: for a formula phi that evaluates, Global(0, 0, phi) is constructed and
\* evaluates at every instant to the robustness of phi at that instant.
C9_GlobalZeroWindow ==
    (/\ req.op = "Global"
     /\ req.lb = 0 /\ req.ub = 0
     /\ Applicable
     /\ Value(req.args[1], trace).err = "none") =>
        /\ last.err = "none"
        /\ last.op = "eval" => last.vec = Value(req.args[1], trace).vec

\* The constructor expression t with its arguments in every order.
Permuted(t) ==
    LET n == Len(t.args)
    IN  {[t EXCEPT !.args = [i \in 1..n |-> t.args[p[i]]]] :
            p \in {q \in [1..n -> 1..n] : \A i, j \in 1..n : q[i] = q[j] => i = j}}

\* An And of three arguments regrouped into nested Ands of two.
Regrouped(t) ==
    IF Len(t.args) # 3 THEN {}
    ELSE {TNary("And", <<TNary("And", <<t.args[1], t.args[2]>>, t.nu), t.args[3]>>, t.nu),
          TNary("And", <<t.args[1], TNary("And", <<t.args[2], t.args[3]>>, t.nu)>>, t.nu)}

\* The classic And of the constructor expression t against tr.
Classic(t, tr) ==
    LET o == Build(t) IN IF IsError(o) THEN Exc(o.name) ELSE eval2(o, tr)

\* C10: the classic And (eval2) gives the same vector for every order of its
\* arguments and for every regrouping of them into nested classic Ands.
C10_ClassicAndRegrouping ==
    (last.op = "eval2" /\ last.err = "none" /\ req.op = "And" /\ Applicable) =>
        \A u \in Permuted(req) \cup Regrouped(req) :
            Classic(u, trace) = Res(last.vec)

\* The operands a chain of the connective of rule folds into one argument
\* list: an unparenthesized operand of the same rule gives its own operands,
\* any other operand (a parenthesized one included) is one argument.
RECURSIVE Folded(_, _)
Folded(t, rule) ==
    IF t.op = rule
    THEN Folded(getChild(t, 0), rule) \o Folded(getChild(t, 2), rule)
    ELSE <<t>>

\* Every operand of the chain is built on its own by the visitor v.
OperandsBuild(t, rule, v) ==
    \A i \in 1..Len(Folded(t, rule)) : ~IsError(visit(Folded(t, rule)[i], v))

\* C11: the visit of a chain of "and" whose operands are built returns one
\* And whose arguments are the unparenthesized conjuncts in source order, a
\* parenthesized conjunction being one argument: "A and B and C" gives
\* And(A, B, C) and "A and (B and C)" gives And(A, And(B, C)).
C11_AndChainFolding ==
    (/\ last.op = "visit"
     /\ req.op = "opAndExpr"
     /\ OperandsBuild(req, "opAndExpr", last.arg[1])) =>
        /\ last.err = "none"
        /\ formula.kind = "And"
        /\ formula.kids = [i \in 1..Len(Folded(req, "opAndExpr")) |->
                              visit(Folded(req, "opAndExpr")[i], last.arg[1])]

\* The operands of an Or object: the f's of Not(And(Not(f1), ..., Not(fn))).
OrOperands(o) ==
    LET conj == o.kids[1].kids[1]
    IN  [i \in 1..Len(conj.kids) |-> conj.kids[i].kids[1]]

\* C12: with a positive nu set on the visitor, the visit of a chain of "or"
\* whose operands are built returns one Or
\* over the unparenthesized disjuncts in source order, a parenthesized
\* disjunction being one operand: "A or B or C" gives Or(A, B, C) and
\* "A or (B or C)" gives Or(A, Or(B, C)).
C12_OrChainFolding ==
    (/\ last.op = "visit"
     /\ req.op = "opOrExpr"
     /\ last.arg[1].nu # None
     /\ OperandsBuild(req, "opOrExpr", last.arg[1])) =>
        /\ last.err = "none"
        /\ formula.kind = "Or"
        /\ OrOperands(formula) = [i \in 1..Len(Folded(req, "opOrExpr")) |->
                                     visit(Folded(req, "opOrExpr")[i], last.arg[1])]

\* The object o and every object below it.
RECURSIVE Nodes(_)
Nodes(o) == {o} \cup UNION {Nodes(o.kids[i]) : i \in 1..Len(o.kids)}

C14_BoundsOrdered ==
    \A o \in Nodes(formula) :
        o.kind \in {"Global", "Finally", "Weak_Until"} =>
            (0 <= o.lb /\ o.lb <= o.ub)

\* The names of the signals the object o reads.
SignalNames(o) == {n.name : n \in {m \in Nodes(o) : m.kind = "Signal"}}

\* C15: a formula that reads a signal the trace does not hold is constructed
\* all the same, and its evaluation raises KeyError and returns no vector,
\* wherever in the formula the reference is.
C15_UnknownSignal ==
    /\ (last.op \in {"construct", "visit"} /\ req.op \in {"Signal", "signalName"}) =>
          (last.err = "none" /\ formula.kind = "Signal" /\ formula.name = req.name)
    /\ (last.op = "eval" /\ ~(SignalNames(formula) \subseteq DOMAIN trace.signals)) =>
          (last.err = "KeyError" /\ last.vec = <<>>)

\* The class the visitor builds for a temporal rule.
NodeOf(rule) ==
    CASE rule = "opGloballyExpr" -> "Global"
      [] rule = "opFutureExpr" -> "Finally"
      [] OTHER -> "Until"

\* The operands of a temporal rule: the children that are neither the
\* operator word nor the interval.
TemporalOperands(t) ==
    SelectSeq(t.args, LAMBDA c : c.op \notin {"token", "interval"})

\* C16: the visit of "G", "F" or "U" whose operands are built raises
\* NotImplementedError and returns no formula when the operator has no
\* interval, and with an interval [a, b] returns the Global, Finally or
\* Until node over the operands with bounds a and b.
C16_IntervalRequired ==
    (/\ last.op = "visit"
     /\ req.op \in {"opGloballyExpr", "opFutureExpr", "opUntilExpr"}
     /\ \A i \in 1..Len(TemporalOperands(req)) :
           ~IsError(visit(TemporalOperands(req)[i], last.arg[1]))) =>
        IF \E i \in 1..Len(req.args) : req.args[i].op = "interval"
        THEN LET I == CHOOSE c \in {req.args[i] : i \in 1..Len(req.args)} : c.op = "interval"
             IN  /\ last.err = "none"
                 /\ formula.kind = NodeOf(req.op)
                 /\ formula.lb = visitInterval(I)[1]
                 /\ formula.ub = visitInterval(I)[2]
                 /\ formula.kids = [i \in 1..Len(TemporalOperands(req)) |->
                                       visit(TemporalOperands(req)[i], last.arg[1])]
        ELSE last.err = "NotImplementedError" /\ IsError(formula)

\* C17: an evaluation leaves the trace and every field of the formula as
\* they were, and an evaluation that directly follows an evaluation (of the
\* same formula on the same trace, then) returns what the first returned.
C17_EvaluationPure ==
    [][(last'.op = "eval") =>
          /\ trace' = trace
          /\ formula' = formula
          /\ (last.op = "eval" => (last'.err = last.err /\ last'.vec = last.vec))]_vars

\* The sources of a merge call: <<name, timestamps, values>>.
Sources(args) ==
    {<<args[3 * k + 1], args[3 * k + 2], args[3 * k + 3]>> :
        k \in 0..((Len(args) \div 3) - 1)}

\* The value of the most recent sample of a source at time t.
Hold(ts, vs, t) ==
    vs[CHOOSE i \in 1..Len(ts) :
          ts[i] <= t /\ \A j \in 1..Len(ts) : ts[j] <= t => j <= i]

\* The end of the longest source.
LongestEnd(args) ==
    CHOOSE e \in {s[2][Len(s[2])] : s \in Sources(args)} :
        \A s \in Sources(args) : s[2][Len(s[2])] <= e

\* The timeline 0, p, 2p, ... that ends within one step p of time e.
Uniform(timestamps, p, e) ==
    /\ Len(timestamps) > 0
    /\ \A i \in 1..Len(timestamps) : timestamps[i] = (i - 1) * p
    /\ timestamps[Len(timestamps)] <= e
    /\ e < timestamps[Len(timestamps)] + p

\* C18: a merge with a sampling period p of sources that all start at time
\* 0 returns the trace on the timeline 0, p, 2p, ... up to the end of the
\* longest source, with every source's name, each sample being the source's
\* most recent value at that time.
C18_ZeroOrderHold ==
    (/\ last.op = "from_mixed_signals"
     /\ last.arg[2] # None
     /\ Sources(last.arg[1]) # {}
     /\ \A s \in Sources(last.arg[1]) : s[2][1] = 0) =>
        /\ last.err = "none"
        /\ trace.exists
        /\ Uniform(trace.timestamps, last.arg[2][1], LongestEnd(last.arg[1]))
        /\ DOMAIN trace.signals = {s[1] : s \in Sources(last.arg[1])}
        /\ \A s \in Sources(last.arg[1]) :
              /\ Len(trace.signals[s[1]]) = Len(trace.timestamps)
              /\ \A i \in 1..Len(trace.timestamps) :
                    trace.signals[s[1]][i] = Hold(s[2], s[3], trace.timestamps[i])

\* The gaps between consecutive timestamps of the sources.
Gaps(args) ==
    UNION {{s[2][i + 1] - s[2][i] : i \in 1..(Len(s[2]) - 1)} : s \in Sources(args)}

\* C19: a merge without a sampling period returns the trace whose step is
\* the smallest gap between consecutive source timestamps, and fails only
\* when the sources show no gap.
C19_InferredPeriod ==
    (last.op = "from_mixed_signals" /\ last.arg[2] = None) =>
        IF Gaps(last.arg[1]) = {}
        THEN last.err # "none" /\ ~trace.exists
        ELSE /\ last.err = "none"
             /\ trace.exists
             /\ Uniform(trace.timestamps,
                        CHOOSE g \in Gaps(last.arg[1]) : \A h \in Gaps(last.arg[1]) : g <= h,
                        LongestEnd(last.arg[1]))

\* C20: with 0 <= lb <= ub and an operand f that evaluates, Finally(lb, ub, f)
\* evaluates to the vector of Not(Global(lb, ub, Not(f))): at every instant
\* the negation of the window minimum of -f, which is the maximum of f over
\* Global's window, and -infinity where Global gives +infinity.
C20_FinallyIsNotGlobalNot ==
    (/\ last.op = "eval"
     /\ formula.kind = "Finally"
     /\ 0 <= formula.lb /\ formula.lb <= formula.ub) =>
        LET f == Eval(formula.kids[1], trace)
            n == Len(trace.timestamps)
            neg == [k \in 1..Len(f.vec) |-> FNeg(f.vec[k])]
        IN  (f.err = "none" /\ Len(f.vec) = n) =>
                /\ last.err = "none"
                /\ Len(last.vec) = n
                /\ \A i \in 1..n :
                      last.vec[i] =
                          FNeg(WindowMin(trace.timestamps, neg, formula.lb, formula.ub, i))

\* C21: for a formula f that evaluates on a trace of n >= 2 samples, Next(f)
\* is constructed and evaluates to f shifted left by one sample: the value
\* at instant i is f's at instant i + 1, and the last value repeats the one
\* before it.
C21_NextShiftsLeft ==
    (/\ req.op = "Next"
     /\ Applicable
     /\ Len(trace.timestamps) >= 2
     /\ Value(req.args[1], trace).err = "none") =>
        /\ last.err = "none"
        /\ last.op = "eval" =>
              LET f == Value(req.args[1], trace).vec
                  n == Len(trace.timestamps)
              IN  /\ Len(last.vec) = n
                  /\ \A i \in 1..(n - 1) : last.vec[i] = f[i + 1]
                  /\ last.vec[n] = last.vec[n - 1]

\* The samples a scan from time lo meets up to time hi while r stays negative.
Scanned(ts, r, lo, hi) ==
    {j \in 1..Len(ts) :
        /\ lo <= ts[j] /\ ts[j] <= hi
        /\ \A k \in 1..j : lo <= ts[k] => r[k] < 0}

\* C22: for operands l and r that evaluate and bounds 0 <= lb <= ub,
\* Weak_Until(lb, ub, l, r) is constructed and evaluated without an
\* exception, and its value at every instant t is the minimum of l over the
\* samples scanned from t + lb up to t + ub while r is negative (stated
\* where the scan meets a sample).
C22_WeakUntilRunningMinimum ==
    (/\ req.op = "Weak_Until"
     /\ Applicable
     /\ Len(trace.timestamps) > 0
     /\ 0 <= req.lb /\ req.lb <= req.ub
     /\ Value(req.args[1], trace).err = "none"
     /\ Value(req.args[2], trace).err = "none") =>
        /\ last.err = "none"
        /\ last.op \in {"eval", "eval_at"} =>
              LET ts == trace.timestamps
                  l == Value(req.args[1], trace).vec
                  r == Value(req.args[2], trace).vec
              IN  /\ Len(last.vec) = Len(ts)
                  /\ \A i \in 1..Len(ts) :
                        LET S == Scanned(ts, r, ts[i] + req.lb, ts[i] + req.ub)
                        IN  S # {} => last.vec[i] = LeastOf({l[j] : j \in S})

\* The children's vectors of the And object o against the trace tr.
ChildVectors(o, tr) == [k \in 1..Len(o.kids) |-> Eval(o.kids[k], tr).vec]

\* C23: where the smallest of the children's values at an instant is exactly
\* 0, the smoothed And is exactly 0 there, whatever nu > 0 and the other
\* children's values are.
C23_SmoothAndZero ==
    (last.op = "eval" /\ formula.kind = "And" /\ last.err = "none") =>
        LET v == ChildVectors(formula, trace)
        IN  (\A k \in 1..Len(v) : Len(v[k]) = Len(last.vec)) =>
                \A i \in 1..Len(last.vec) :
                    (/\ \E k \in 1..Len(v) : v[k][i] = 0
                     /\ \A k \in 1..Len(v) : v[k][i] >= 0 /\ ~IsNaN(v[k][i])) =>
                        last.vec[i] = 0

\* An And of nu = 2 was evaluated where one child is 0 and another positive.
C23_Witness ==
    /\ last.op = "eval" /\ formula.kind = "And" /\ last.err = "none"
    /\ formula.nu = <<2>>
    /\ LET v == ChildVectors(formula, trace)
       IN  /\ \A k \in 1..Len(v) : Len(v[k]) = Len(last.vec)
           /\ \E i \in 1..Len(last.vec) :
                 /\ \E k \in 1..Len(v) : v[k][i] = 0
                 /\ \E k \in 1..Len(v) : v[k][i] > 0 /\ v[k][i] < PosInf
                 /\ \A k \in 1..Len(v) : v[k][i] >= 0
                 /\ last.vec[i] = 0

\* The 0-based indices from start on whose timestamp is t.
Matches(timestamps, t, start) ==
    {i \in 0..(Len(timestamps) - 1) : i >= start /\ timestamps[i + 1] = t}

\* C24: search_time_index(t, start), for a start from 0 on and for the
\* start -1 that Global.eval passes on after a failed lookup (the trace is
\* not empty then), returns the smallest index from start on whose
\* timestamp is t, and -1 exactly when there is none.
C24_IndexOf ==
    (last.op = "search" /\ (last.arg[2] >= 0 \/ Len(trace.timestamps) > 0)) =>
        LET M == Matches(trace.timestamps, last.arg[1], last.arg[2])
        IN  /\ last.err = "none"
            /\ IF M = {} THEN last.num = 0 - 1
               ELSE last.num \in M /\ \A i \in M : last.num <= i

\* The horizon C25 gives a node: 0 for a leaf, ub plus the largest child
\* horizon for Global, Finally and Weak_Until, 1 plus the child's for Next,
\* and the largest child horizon for every other node.
RECURSIVE StaticHorizon(_)
StaticHorizon(o) ==
    LET below == {StaticHorizon(o.kids[i]) : i \in 1..Len(o.kids)}
        most == IF below = {} THEN 0 ELSE CHOOSE h \in below : \A g \in below : g <= h
    IN  CASE o.kind \in {"Global", "Finally", "Weak_Until"} -> o.ub + most
          [] o.kind = "Next" -> 1 + most
          [] OTHER -> most

\* C25: every node of a constructed formula has a horizon, and it is the one
\* the static rule gives, at any depth.
C25_HorizonRule ==
    (~IsError(formula) /\ formula # NoFormula) =>
        \A o \in Nodes(formula) :
            Has(o, "horizon") /\ o.horizon = StaticHorizon(o)

\* The static range of a node, under either attribute name; None when the
\* node has none.
RangeOf(o) ==
    IF Has(o, "range") THEN o.range
    ELSE IF Has(o, "var_range") THEN o.var_range
    ELSE None

\* C26: a comparison of two operands, each a signal or a Const, whose
\* ranges are known is constructed and has the range of the interval
\* subtraction: [l.min - r.max, l.max - r.min] for GreaterThan(l, r),
\* [r.min - l.max, r.max - l.min] for LessThan(l, r), lower bound first.
C26_PredicateRange ==
    (/\ last.op = "construct"
     /\ req.op \in {"GreaterThan", "LessThan"}
     /\ IsAtom(req.args[1]) /\ IsAtom(req.args[2])
     /\ RangeOf(AsConst(Build(req.args[1]))) # None
     /\ RangeOf(AsConst(Build(req.args[2]))) # None) =>
        LET l == RangeOf(AsConst(Build(req.args[1])))
            r == RangeOf(AsConst(Build(req.args[2])))
        IN  /\ last.err = "none"
            /\ RangeOf(formula) =
                  IF req.op = "GreaterThan" THEN <<l[1] - r[2], l[2] - r[1]>>
                  ELSE <<r[1] - l[2], r[2] - l[1]>>
            /\ RangeOf(formula)[1] <= RangeOf(formula)[2]

\* The smallest number of a sequence of numbers.
RECURSIVE LeastIn(_)
LeastIn(s) == IF Len(s) = 1 THEN s[1] ELSE Min2(s[1], LeastIn(Tail(s)))

\* C27: And and Or of signals with nu > 0 are constructed whatever the
\* signals' ranges are; the range is None when a signal has none, and for
\* And otherwise [the least lower bound, the least upper bound].
C27_AndRange ==
    (/\ last.op = "construct"
     /\ req.op \in {"And", "Or"}
     /\ req.nu # None /\ req.nu[1] > 0
     /\ Len(req.args) > 0
     /\ \A i \in 1..Len(req.args) : req.args[i].op = "Signal") =>
        LET rs == [i \in 1..Len(req.args) |-> req.args[i].range]
        IN  /\ last.err = "none"
            /\ (\E i \in 1..Len(rs) : rs[i] = None) => RangeOf(formula) = None
            /\ (req.op = "And" /\ \A i \in 1..Len(rs) : rs[i] # None) =>
                  RangeOf(formula) = <<LeastIn([i \in 1..Len(rs) |-> rs[i][1]]),
                                       LeastIn([i \in 1..Len(rs) |-> rs[i][2]])>>

\* Every sample of every signal the formula o declares a range for lies in
\* that range.
WithinDeclared(o, tr) ==
    \A n \in Nodes(o) :
        (n.kind = "Signal" /\ n.range # None /\ n.name \in DOMAIN tr.signals) =>
            \A i \in 1..Len(tr.signals[n.name]) :
                n.range[1] <= tr.signals[n.name][i] /\ tr.signals[n.name][i] <= n.range[2]

\* C28: for an evaluated formula made of Signal, Const, Sum, Subtract, Abs,
\* Not, LessThan, GreaterThan and Equals whose range is known, on a trace
\* whose samples lie in the declared ranges, the range has min <= max and
\* holds every value of the robustness vector.
C28_RangeSound ==
    (/\ last.op = "eval" /\ last.err = "none"
     /\ \A n \in Nodes(formula) :
           n.kind \in {"Signal", "Const", "Sum", "Subtract", "Abs", "Not",
                       "LessThan", "GreaterThan", "Equals"}
     /\ RangeOf(formula) # None
     /\ WithinDeclared(formula, trace)) =>
        /\ RangeOf(formula)[1] <= RangeOf(formula)[2]
        /\ \A i \in 1..Len(last.vec) :
              RangeOf(formula)[1] <= last.vec[i] /\ last.vec[i] <= RangeOf(formula)[2]

\* C29: at every instant where all the children of an And have the same
\* value v, the smoothed And.eval returns v, as the classic And does, for
\* every nu > 0 and every number of children.
C29_SmoothAndDegenerate ==
    (last.op = "eval" /\ formula.kind = "And") =>
        LET v == ChildVectors(formula, trace)
            n == Len(v[1])
        IN  (/\ \A k \in 1..Len(v) : Eval(formula.kids[k], trace).err = "none"
             /\ \A k \in 1..Len(v) : Len(v[k]) = n) =>
                /\ last.err = "none"
                /\ Len(last.vec) = n
                /\ \A i \in 1..n :
                      (\A k \in 1..Len(v) : v[k][i] = v[1][i]) => last.vec[i] = v[1][i]

\* C30: on a trace that is not empty and for bounds 0 <= lb <= ub, lb beyond
\* the last timestamp included, Weak_Until.eval(traces, time) of operands
\* that evaluate returns a vector with one value per timestamp and raises
\* no IndexError.
C30_WeakUntilTotal ==
    (/\ last.op = "eval_at"
     /\ Len(trace.timestamps) > 0
     /\ Healthy(trace)
     /\ 0 <= formula.lb /\ formula.lb <= formula.ub
     /\ Eval(formula.kids[1], trace).err = "none"
     /\ Eval(formula.kids[2], trace).err = "none") =>
        /\ last.err = "none"
        /\ Len(last.vec) = Len(trace.timestamps)

====
